---- MODULE Spec2Model ----
(***************************************************************************)
(* A model of gpui-video's VideoElement (src/src/element.rs): the redraw   *)
(* scheduler (prepaint), the frame acquisition policy and the two output   *)
(* paths (paint), the native zero-copy gate (try_paint_surface_macos) and  *)
(* the texture lifecycle (paint_render_image).                             *)
(*                                                                         *)
(* The frame source (crate::video::Video) is not part of the sources; its  *)
(* interface is modelled from the specification: a bounded FIFO buffer, a  *)
(* current-frame slot, a one-shot frame-ready flag and the playback flags. *)
(* The source runs on its own thread, so its steps interleave with the     *)
(* steps of a pass; the pass itself runs on the UI thread, one step after  *)
(* the other.  An Option<T> is a sequence of length at most one.           *)
(***************************************************************************)
EXTENDS Integers, Sequences, FiniteSets, TLC

\* Bounds of the model.
MaxFrames == 3
MaxCap == 3
MaxPasses == 3
MaxDim == 3
\* the largest container or frame dimension fitted_bounds is applied to
MaxPx == 13
\* images uploaded by the two elements of one window together
MaxUploads == 4

VARIABLES
    \* the frame source (Video)
    buffer, current, frame_ready, paused, eos, capacity, produced,
    \* the host: a pending animation-frame request, a pending invalidation,
    \* the position of the running pass, passes run, element torn down
    raf, dirty, pc, passes, torn,
    \* the build target (cfg(target_os = "macos"))
    macos,
    \* locals of prepaint and paint
    is_playing, has_new_frame, seenLen, frame_to_render, handled, render_image, prev_image,
    \* the window: the element state cell, the images resident in the atlas,
    \* and what the pass submitted
    last_render_image, live, created, surfaces, conversions, images,
    \* history: frames enqueued, frames taken from the buffer for rendering,
    \* image events, failed native attempts so far
    enqueued, popped, trace, nativeFails,
    \* the native gate applied to enumerated inputs
    nat_in, nat_out,
    \* a function of the element applied to enumerated inputs
    fn_in, fn_out,
    \* two elements painted in one window: their ids, and the window's state
    elem_ids, win

vars == << buffer, current, frame_ready, paused, eos, capacity, produced,
           raf, dirty, pc, passes, torn, macos,
           is_playing, has_new_frame, seenLen, frame_to_render, handled,
           render_image, prev_image,
           last_render_image, live, created, surfaces, conversions, images,
           enqueued, popped, trace, nativeFails, nat_in, nat_out,
           fn_in, fn_out, elem_ids, win >>

sourceVars == << buffer, current, frame_ready, paused, eos, capacity, produced, enqueued >>
hostVars == << raf, dirty, pc, passes, torn, macos >>
prepaintLocals == << is_playing, has_new_frame >>
paintLocals == << seenLen, frame_to_render, handled, render_image, prev_image >>
windowVars == << last_render_image, live, created, surfaces, conversions, images, trace >>
gateVars == << nat_in, nat_out, fn_in, fn_out, elem_ids, win >>

Min(a, b) == IF a <= b THEN a ELSE b

\* ---------------------------------------------------------------- frames

\* A frame is (bytes, width, height); of the bytes the model keeps the length.
Frame(id, w, h, len) == [id |-> id, w |-> w, h |-> h, len |-> len]

\* y_size + uv_size of try_paint_surface_macos and yuv_to_rgb.
Nv12Size(w, h) == w * h + (w * h) \div 2

\* The shapes the producer publishes: a well-formed frame and a short one.
Shapes == { <<2, 2, Nv12Size(2, 2)>>, <<2, 2, Nv12Size(2, 2) - 1>> }

\* ------------------------------------------------- the frame source (Video)

BufferedLen == Len(buffer)

\* pop_buffered_frame: the front of the queue, or None.
PopFront(q) == IF q = <<>> THEN <<>> ELSE << Head(q) >>
PopRest(q) == IF q = <<>> THEN <<>> ELSE Tail(q)

\* current_frame_data
CurrentFrameData == current

\* The producer publishes a frame: into the current-frame slot and, when the
\* buffer has room, at the back of the buffer; it sets frame-ready, and the
\* new frame invalidates the host's window.
Push ==
    /\ produced < MaxFrames
    /\ ~torn
    /\ \E s \in Shapes :
         LET f == Frame(produced + 1, s[1], s[2], s[3]) IN
         /\ current' = << f >>
         /\ IF Len(buffer) < capacity
               THEN /\ buffer' = Append(buffer, f)
                    /\ enqueued' = Append(enqueued, f.id)
               ELSE UNCHANGED << buffer, enqueued >>
    /\ produced' = produced + 1
    /\ frame_ready' = TRUE
    /\ dirty' = TRUE
    /\ UNCHANGED << paused, eos, capacity, raf, pc, passes, torn, macos, popped, nativeFails >>
    /\ UNCHANGED << prepaintLocals, paintLocals, windowVars, gateVars >>

TogglePaused ==
    /\ ~torn
    /\ paused' = ~paused
    /\ UNCHANGED << buffer, current, frame_ready, eos, capacity, produced, enqueued >>
    /\ UNCHANGED << hostVars, prepaintLocals, paintLocals, windowVars, gateVars, popped, nativeFails >>

SetEos ==
    /\ ~torn
    /\ ~eos
    /\ eos' = TRUE
    /\ UNCHANGED << buffer, current, frame_ready, paused, capacity, produced, enqueued >>
    /\ UNCHANGED << hostVars, prepaintLocals, paintLocals, windowVars, gateVars, popped, nativeFails >>

\* ----------------------------------------------------------------- the host

\* An external event (resize, resume, seek) invalidates the window.
Invalidate ==
    /\ ~torn
    /\ ~dirty
    /\ dirty' = TRUE
    /\ UNCHANGED << sourceVars, raf, pc, passes, torn, macos >>
    /\ UNCHANGED << prepaintLocals, paintLocals, windowVars, gateVars, popped, nativeFails >>

\* The host starts a pass when one was requested or the window is invalid.
BeginPass ==
    /\ pc = "idle"
    /\ ~torn
    /\ raf \/ dirty
    /\ passes < MaxPasses
    /\ raf' = FALSE
    /\ dirty' = FALSE
    /\ passes' = passes + 1
    /\ pc' = "prepaint"
    /\ UNCHANGED << sourceVars, torn, macos >>
    /\ UNCHANGED << prepaintLocals, paintLocals, windowVars, gateVars, popped, nativeFails >>

\* ------------------------------------------------------------------ prepaint

\* take_frame_ready: the flag as read; the read clears it.
TakeFrameReady == frame_ready

ShouldRequestPlayingOnly(playing, new_frame) == playing

\* if is_playing || has_new_frame { window.request_animation_frame(); }
ShouldRequest(playing, new_frame) == playing \/ new_frame

Prepaint ==
    /\ pc = "prepaint"
    /\ is_playing' = (~eos /\ ~paused)
    /\ has_new_frame' = TakeFrameReady
    /\ frame_ready' = FALSE
    /\ raf' = (raf \/ ShouldRequest(is_playing', has_new_frame'))
    /\ pc' = "paint_len"
    /\ UNCHANGED << buffer, current, paused, eos, capacity, produced, enqueued >>
    /\ UNCHANGED << dirty, passes, torn, macos >>
    /\ UNCHANGED << paintLocals, windowVars, gateVars, popped, nativeFails >>

\* --------------------------------------------------- paint: frame acquisition

\* self.video.buffered_len() > 0
PaintLen ==
    /\ pc = "paint_len"
    /\ seenLen' = BufferedLen
    /\ is_playing' = FALSE
    /\ has_new_frame' = FALSE
    /\ pc' = "paint_acquire"
    /\ UNCHANGED << sourceVars, raf, dirty, passes, torn, macos >>
    /\ UNCHANGED << frame_to_render, handled, render_image, prev_image >>
    /\ UNCHANGED << windowVars, gateVars, popped, nativeFails >>

\* The acquisition before the fix: every buffered frame is taken and the
\* newest one is rendered.
PaintAcquireDrain ==
    /\ pc = "paint_acquire"
    /\ IF seenLen > 0
          THEN /\ frame_to_render' = IF buffer = <<>> THEN <<>> ELSE << buffer[Len(buffer)] >>
               /\ buffer' = <<>>
               /\ popped' = IF buffer = <<>> THEN popped
                            ELSE Append(popped, buffer[Len(buffer)].id)
          ELSE /\ frame_to_render' = CurrentFrameData
               /\ UNCHANGED << buffer, popped >>
    /\ pc' = IF frame_to_render' = <<>> THEN "done" ELSE "paint_native"
    /\ UNCHANGED << current, frame_ready, paused, eos, capacity, produced, enqueued >>
    /\ UNCHANGED << raf, dirty, passes, torn, macos >>
    /\ UNCHANGED << prepaintLocals, seenLen, handled, render_image, prev_image >>
    /\ UNCHANGED << windowVars, gateVars, nativeFails >>

\* An acquisition that renders the front frame and leaves it in the buffer.
PaintAcquirePeek ==
    /\ pc = "paint_acquire"
    /\ IF seenLen > 0
          THEN /\ frame_to_render' = PopFront(buffer)
               /\ popped' = IF buffer = <<>> THEN popped ELSE Append(popped, Head(buffer).id)
               /\ UNCHANGED buffer
          ELSE /\ frame_to_render' = CurrentFrameData
               /\ UNCHANGED << buffer, popped >>
    /\ pc' = IF frame_to_render' = <<>> THEN "done" ELSE "paint_native"
    /\ UNCHANGED << current, frame_ready, paused, eos, capacity, produced, enqueued >>
    /\ UNCHANGED << raf, dirty, passes, torn, macos >>
    /\ UNCHANGED << prepaintLocals, seenLen, handled, render_image, prev_image >>
    /\ UNCHANGED << windowVars, gateVars, nativeFails >>

\* An acquisition that looks at the buffer only.
PaintAcquireNoFallback ==
    /\ pc = "paint_acquire"
    /\ frame_to_render' = PopFront(buffer)
    /\ buffer' = PopRest(buffer)
    /\ popped' = IF buffer = <<>> THEN popped ELSE Append(popped, Head(buffer).id)
    /\ pc' = IF frame_to_render' = <<>> THEN "done" ELSE "paint_native"
    /\ UNCHANGED << current, frame_ready, paused, eos, capacity, produced, enqueued >>
    /\ UNCHANGED << raf, dirty, passes, torn, macos >>
    /\ UNCHANGED << prepaintLocals, seenLen, handled, render_image, prev_image >>
    /\ UNCHANGED << windowVars, gateVars, nativeFails >>

\* pop_buffered_frame() when the length was positive, else current_frame_data().
PaintAcquire ==
    /\ pc = "paint_acquire"
    /\ IF seenLen > 0
          THEN /\ frame_to_render' = PopFront(buffer)
               /\ buffer' = PopRest(buffer)
               /\ popped' = IF buffer = <<>> THEN popped ELSE Append(popped, Head(buffer).id)
          ELSE /\ frame_to_render' = CurrentFrameData
               /\ UNCHANGED << buffer, popped >>
    /\ pc' = IF frame_to_render' = <<>> THEN "done" ELSE "paint_native"
    /\ UNCHANGED << current, frame_ready, paused, eos, capacity, produced, enqueued >>
    /\ UNCHANGED << raf, dirty, passes, torn, macos >>
    /\ UNCHANGED << prepaintLocals, seenLen, handled, render_image, prev_image >>
    /\ UNCHANGED << windowVars, gateVars, nativeFails >>

\* ------------------------------------------- the native zero-copy gate

\* What CVPixelBuffer::new and the buffer's accessors report.
AllocFailed ==
    [alloc |-> FALSE, pf_ok |-> FALSE, planar |-> FALSE, planes |-> 0,
     y_w |-> 0, y_h |-> 0, uv_w |-> 0, uv_h |-> 0,
     y_stride |-> 0, uv_stride |-> 0, lock |-> FALSE]

\* A surface as the platform allocates it for w x h, rows padded by one byte.
GoodSurface(w, h) ==
    [alloc |-> TRUE, pf_ok |-> TRUE, planar |-> TRUE, planes |-> 2,
     y_w |-> w, y_h |-> h, uv_w |-> w \div 2, uv_h |-> h \div 2,
     y_stride |-> w + 1, uv_stride |-> w + 1, lock |-> TRUE]

\* yuv_data.len() < y_size + uv_size || width == 0 || height == 0
PrecheckFails(w, h, len) == len < Nv12Size(w, h) \/ w = 0 \/ h = 0

\* pf != NV12 full range || !is_planar() || get_plane_count() != 2
FormatFails(s) == ~s.pf_ok \/ ~s.planar \/ s.planes # 2

LayoutOkNoStride(w, h, s) ==
    /\ s.y_w = w
    /\ s.y_h = h
    /\ s.uv_w = w \div 2
    /\ s.uv_h = h \div 2

\* y_w == width && y_h == height && uv_w == width / 2 && uv_h == height / 2
\*   && y_stride >= width && uv_stride >= width
LayoutOk(w, h, s) ==
    /\ s.y_w = w
    /\ s.y_h = h
    /\ s.uv_w = w \div 2
    /\ s.uv_h = h \div 2
    /\ s.y_stride >= w
    /\ s.uv_stride >= w

\* The bytes the two row loops copy: height rows and height/2 rows of width.
CopiedBytes(w, h) == h * w + (h \div 2) * w

NotHandled(allocated) ==
    [handled |-> FALSE, allocated |-> allocated, locked |-> FALSE,
     copied |-> 0, submitted |-> FALSE]

\* try_paint_surface_macos: what it did and what it returns.
TryPaintSurface(w, h, len, s) ==
    IF PrecheckFails(w, h, len) THEN NotHandled(FALSE)
    ELSE IF ~s.alloc THEN NotHandled(FALSE)
    ELSE IF FormatFails(s) THEN NotHandled(TRUE)
    ELSE IF ~LayoutOk(w, h, s) THEN NotHandled(TRUE)
    ELSE IF ~s.lock THEN NotHandled(TRUE)
    ELSE [handled |-> TRUE, allocated |-> TRUE, locked |-> TRUE,
          copied |-> CopiedBytes(w, h), submitted |-> TRUE]

\* The surfaces a pass may meet: the good one and one of each failure.
PassSurfaces(w, h) ==
    LET g == GoodSurface(w, h) IN
    { g, AllocFailed,
      [g EXCEPT !.pf_ok = FALSE], [g EXCEPT !.planar = FALSE],
      [g EXCEPT !.planes = 1],
      [g EXCEPT !.y_w = w + 1], [g EXCEPT !.y_h = h + 1],
      [g EXCEPT !.uv_w = w], [g EXCEPT !.uv_h = h],
      [g EXCEPT !.y_stride = w - 1], [g EXCEPT !.uv_stride = w - 1],
      [g EXCEPT !.y_stride = w, !.uv_stride = w],
      [g EXCEPT !.lock = FALSE] }

AfterNativeFallThrough(ok) == "paint_convert"

\* if self.try_paint_surface_macos(..) { return; }
AfterNative(ok) == IF ok THEN "done" ELSE "paint_convert"

\* A native path that a failure switches off for the frames that follow.
PaintNativeSticky ==
    /\ pc = "paint_native"
    /\ IF macos /\ nativeFails = 0
          THEN \E s \in PassSurfaces(frame_to_render[1].w, frame_to_render[1].h) :
                 LET f == frame_to_render[1]
                     r == TryPaintSurface(f.w, f.h, f.len, s) IN
                 /\ handled' = IF r.handled THEN "yes" ELSE "no"
                 /\ surfaces' = surfaces + (IF r.submitted THEN 1 ELSE 0)
                 /\ nativeFails' = IF r.handled THEN nativeFails ELSE Min(nativeFails + 1, 2)
                 /\ pc' = AfterNative(r.handled)
          ELSE /\ handled' = "unavailable"
               /\ pc' = "paint_convert"
               /\ UNCHANGED << surfaces, nativeFails >>
    /\ UNCHANGED << sourceVars, raf, dirty, passes, torn, macos >>
    /\ UNCHANGED << prepaintLocals, seenLen, frame_to_render, render_image, prev_image >>
    /\ UNCHANGED << last_render_image, live, created, conversions, images, trace >>
    /\ UNCHANGED << gateVars, popped >>

\* A native path that releases the retained image once a surface was submitted.
PaintNativeEvict ==
    /\ pc = "paint_native"
    /\ IF macos
          THEN \E s \in PassSurfaces(frame_to_render[1].w, frame_to_render[1].h) :
                 LET f == frame_to_render[1]
                     r == TryPaintSurface(f.w, f.h, f.len, s) IN
                 /\ handled' = IF r.handled THEN "yes" ELSE "no"
                 /\ surfaces' = surfaces + (IF r.submitted THEN 1 ELSE 0)
                 /\ nativeFails' = IF r.handled THEN nativeFails ELSE Min(nativeFails + 1, 2)
                 /\ pc' = AfterNative(r.handled)
                 /\ IF r.handled /\ last_render_image # <<>>
                       THEN /\ live' = live \ { last_render_image[1] }
                            /\ last_render_image' = <<>>
                       ELSE UNCHANGED << last_render_image, live >>
          ELSE /\ handled' = "unavailable"
               /\ pc' = "paint_convert"
               /\ UNCHANGED << surfaces, nativeFails, last_render_image, live >>
    /\ UNCHANGED << sourceVars, raf, dirty, passes, torn, macos >>
    /\ UNCHANGED << prepaintLocals, seenLen, frame_to_render, render_image, prev_image >>
    /\ UNCHANGED << created, conversions, images, trace >>
    /\ UNCHANGED << gateVars, popped >>

\* paint: the native attempt, which only the macOS build has.
PaintNative ==
    /\ pc = "paint_native"
    /\ IF macos
          THEN \E s \in PassSurfaces(frame_to_render[1].w, frame_to_render[1].h) :
                 LET f == frame_to_render[1]
                     r == TryPaintSurface(f.w, f.h, f.len, s) IN
                 /\ handled' = IF r.handled THEN "yes" ELSE "no"
                 /\ surfaces' = surfaces + (IF r.submitted THEN 1 ELSE 0)
                 /\ nativeFails' = IF r.handled THEN nativeFails ELSE Min(nativeFails + 1, 2)
                 /\ pc' = AfterNative(r.handled)
          ELSE /\ handled' = "unavailable"
               /\ pc' = "paint_convert"
               /\ UNCHANGED << surfaces, nativeFails >>
    /\ UNCHANGED << sourceVars, raf, dirty, passes, torn, macos >>
    /\ UNCHANGED << prepaintLocals, seenLen, frame_to_render, render_image, prev_image >>
    /\ UNCHANGED << last_render_image, live, created, conversions, images, trace >>
    /\ UNCHANGED << gateVars, popped >>

\* ------------------------------------------------------ the CPU path

\* What one yuv_nv12_to_bgra call may do: succeed, fail leaving the output
\* buffer as it was, or fail after writing part of it.
ConvResults == { "ok", "err", "err_wrote" }

\* The configurations in the order yuv_to_rgb tries them:
\* (Full, Bt709), then (Limited, Bt709), then (Limited, Bt601).
ConvOrder == << "full709", "limited709", "limited601" >>

\* The output buffer after one attempt on it.
AfterAttempt(fill, cfg, r) ==
    IF r = "ok" THEN cfg
    ELSE IF r = "err_wrote" THEN "partial"
    ELSE fill

\* A precheck that counts the luma plane only.
TooShortLumaOnly(w, h, len) == len < w * h

\* yuv_data.len() < y_size + uv_size
TooShort(w, h, len) == len < Nv12Size(w, h)

\* A last resort that hands back the buffer the attempts worked on.
AllFailedKeepsBuffer(w, h, fill) == [len |-> w * h * 4, fill |-> fill, attempts |-> 3]

\* Err(_) => vec![0; width_usize * height_usize * 4]
AllFailed(w, h, fill) == [len |-> w * h * 4, fill |-> "zeros", attempts |-> 3]

\* yuv_to_rgb: the length of the buffer it returns, what fills it and how many
\* conversions it attempted; r1, r2 and r3 are the results of the three
\* yuv_nv12_to_bgra attempts, each made on the same bgra buffer.
YuvToRgb(w, h, len, r1, r2, r3) ==
    IF TooShort(w, h, len)
       THEN [len |-> w * h * 4, fill |-> "zeros", attempts |-> 0]
       ELSE LET b1 == AfterAttempt("zeros", ConvOrder[1], r1)
                b2 == AfterAttempt(b1, ConvOrder[2], r2)
                b3 == AfterAttempt(b2, ConvOrder[3], r3) IN
            IF r1 = "ok" THEN [len |-> w * h * 4, fill |-> b1, attempts |-> 1]
            ELSE IF r2 = "ok" THEN [len |-> w * h * 4, fill |-> b2, attempts |-> 2]
            ELSE IF r3 = "ok" THEN [len |-> w * h * 4, fill |-> b3, attempts |-> 3]
            ELSE AllFailed(w, h, b3)

\* ImageBuffer::from_raw: Some when the buffer holds width*height*4 bytes.
FromRaw(w, h, n) == n >= w * h * 4

\* paint: yuv_to_rgb, then paint_render_image up to
\* Arc::new(RenderImage::new(frames)); rgb_data moves into the image.
PaintConvert ==
    /\ pc = "paint_convert"
    /\ \E r1, r2, r3 \in ConvResults :
         LET f == frame_to_render[1]
             rgb_data == YuvToRgb(f.w, f.h, f.len, r1, r2, r3) IN
         IF FromRaw(f.w, f.h, rgb_data.len)
            THEN /\ created' = created + 1
                 /\ render_image' = << created + 1 >>
                 /\ live' = live \cup { created + 1 }
                 /\ trace' = Append(trace, << "create", created + 1 >>)
                 /\ pc' = "img_swap"
            ELSE /\ pc' = "done"
                 /\ UNCHANGED << created, render_image, live, trace >>
    /\ conversions' = conversions + 1
    /\ UNCHANGED << sourceVars, raf, dirty, passes, torn, macos >>
    /\ UNCHANGED << prepaintLocals, seenLen, frame_to_render, handled, prev_image >>
    /\ UNCHANGED << last_render_image, surfaces, images >>
    /\ UNCHANGED << gateVars, popped, nativeFails >>

\* A swap that releases the previous image before the new one is painted.
ImgSwapEvictEarly ==
    /\ pc = "img_swap"
    /\ prev_image' = last_render_image
    /\ last_render_image' = render_image
    /\ IF last_render_image # <<>>
          THEN /\ live' = live \ { last_render_image[1] }
               /\ trace' = trace \o << << "swap", render_image[1] >>,
                                       << "drop", last_render_image[1] >> >>
          ELSE /\ trace' = Append(trace, << "swap", render_image[1] >>)
               /\ UNCHANGED live
    /\ pc' = "img_paint"
    /\ UNCHANGED << sourceVars, raf, dirty, passes, torn, macos >>
    /\ UNCHANGED << prepaintLocals, seenLen, frame_to_render, handled, render_image >>
    /\ UNCHANGED << created, surfaces, conversions, images >>
    /\ UNCHANGED << gateVars, popped, nativeFails >>

\* last_render_image.update(cx, |this, _| this.replace(render_image.clone()))
ImgSwap ==
    /\ pc = "img_swap"
    /\ prev_image' = last_render_image
    /\ last_render_image' = render_image
    /\ trace' = Append(trace, << "swap", render_image[1] >>)
    /\ pc' = "img_paint"
    /\ UNCHANGED << sourceVars, raf, dirty, passes, torn, macos >>
    /\ UNCHANGED << prepaintLocals, seenLen, frame_to_render, handled, render_image >>
    /\ UNCHANGED << live, created, surfaces, conversions, images >>
    /\ UNCHANGED << gateVars, popped, nativeFails >>

\* window.paint_image(dest_bounds, .., render_image.clone(), 0, false).ok()
ImgPaint ==
    /\ pc = "img_paint"
    /\ images' = images + 1
    /\ trace' = Append(trace, << "paint", render_image[1] >>)
    /\ pc' = "img_drop"
    /\ UNCHANGED << sourceVars, raf, dirty, passes, torn, macos >>
    /\ UNCHANGED << prepaintLocals, paintLocals >>
    /\ UNCHANGED << last_render_image, live, created, surfaces, conversions >>
    /\ UNCHANGED << gateVars, popped, nativeFails >>

\* The call returns with the previous image still in the atlas.
ImgDropNever ==
    /\ pc = "img_drop"
    /\ render_image' = <<>>
    /\ prev_image' = <<>>
    /\ pc' = "done"
    /\ UNCHANGED << sourceVars, raf, dirty, passes, torn, macos >>
    /\ UNCHANGED << prepaintLocals, seenLen, frame_to_render, handled >>
    /\ UNCHANGED << windowVars, gateVars, popped, nativeFails >>

\* if let Some(prev) = prev_image { cx.drop_image(prev, Some(window)); }
ImgDrop ==
    /\ pc = "img_drop"
    /\ IF prev_image # <<>>
          THEN /\ live' = live \ { prev_image[1] }
               /\ trace' = Append(trace, << "drop", prev_image[1] >>)
          ELSE UNCHANGED << live, trace >>
    /\ render_image' = <<>>
    /\ prev_image' = <<>>
    /\ pc' = "done"
    /\ UNCHANGED << sourceVars, raf, dirty, passes, torn, macos >>
    /\ UNCHANGED << prepaintLocals, seenLen, frame_to_render, handled >>
    /\ UNCHANGED << last_render_image, created, surfaces, conversions, images >>
    /\ UNCHANGED << gateVars, popped, nativeFails >>

\* paint returns; its locals and what it submitted belong to the ended pass.
EndPass ==
    /\ pc = "done"
    /\ pc' = "idle"
    /\ seenLen' = 0
    /\ frame_to_render' = <<>>
    /\ handled' = "none"
    /\ surfaces' = 0
    /\ conversions' = 0
    /\ images' = 0
    /\ UNCHANGED << sourceVars, raf, dirty, passes, torn, macos >>
    /\ UNCHANGED << prepaintLocals, render_image, prev_image >>
    /\ UNCHANGED << last_render_image, live, created, trace >>
    /\ UNCHANGED << gateVars, popped, nativeFails >>

\* The element leaves the tree: the host releases its state cell.  No code of
\* the element runs, so nothing calls drop_image for the image the cell held.
Teardown ==
    /\ pc = "idle"
    /\ ~torn
    /\ torn' = TRUE
    /\ last_render_image' = <<>>
    /\ UNCHANGED << sourceVars, raf, dirty, pc, passes, macos >>
    /\ UNCHANGED << prepaintLocals, paintLocals >>
    /\ UNCHANGED << live, created, surfaces, conversions, images, trace >>
    /\ UNCHANGED << gateVars, popped, nativeFails >>

\* ------------------------------------------------------ the specification

\* The state of a freshly built element in a window that awaits its first draw.
Fresh ==
    /\ buffer = <<>>
    /\ current = <<>>
    /\ frame_ready = FALSE
    /\ eos = FALSE
    /\ produced = 0
    /\ raf = FALSE
    /\ dirty = TRUE
    /\ pc = "idle"
    /\ passes = 0
    /\ torn = FALSE
    /\ is_playing = FALSE
    /\ has_new_frame = FALSE
    /\ seenLen = 0
    /\ frame_to_render = <<>>
    /\ handled = "none"
    /\ render_image = <<>>
    /\ prev_image = <<>>
    /\ last_render_image = <<>>
    /\ live = {}
    /\ created = 0
    /\ surfaces = 0
    /\ conversions = 0
    /\ images = 0
    /\ enqueued = <<>>
    /\ popped = <<>>
    /\ trace = <<>>
    /\ nativeFails = 0

Init ==
    /\ Fresh
    /\ paused \in BOOLEAN
    /\ capacity \in 0..MaxCap
    /\ macos \in BOOLEAN
    /\ nat_in = <<>>
    /\ nat_out = <<>>
    /\ fn_in = <<>>
    /\ fn_out = <<>>
    /\ elem_ids = <<>>
    /\ win = <<>>

Next ==
    \/ Push
    \/ TogglePaused
    \/ SetEos
    \/ Invalidate
    \/ BeginPass
    \/ Prepaint
    \/ PaintLen
    \/ PaintAcquire
    \/ PaintNative
    \/ PaintConvert
    \/ ImgSwap
    \/ ImgPaint
    \/ ImgDrop
    \/ EndPass
    \/ Teardown

Spec == Init /\ [][Next]_vars

\* ------------------------------------ the native gate on enumerated inputs

Strides(w) == { n \in { 0, w - 1, w, w + 1 } : n >= 0 }

\* Every report of the platform around the expected layout of a w x h surface.
GateSurfaces(w, h) ==
    { AllocFailed } \cup
    [ alloc : { TRUE }, pf_ok : BOOLEAN, planar : BOOLEAN, planes : { 1, 2 },
      y_w : { w, w + 1 }, y_h : { h, h + 1 },
      uv_w : { w \div 2, w \div 2 + 1 }, uv_h : { h \div 2, h \div 2 + 1 },
      y_stride : Strides(w), uv_stride : Strides(w), lock : BOOLEAN ]

GateLens(w, h) == { n \in { 0, Nv12Size(w, h) - 1, Nv12Size(w, h) } : n >= 0 }

InitNative ==
    /\ Fresh
    /\ paused = FALSE
    /\ capacity = 0
    /\ macos = TRUE
    /\ \E w \in 0..MaxDim, h \in 0..MaxDim :
         \E len \in GateLens(w, h), s \in GateSurfaces(w, h) :
           nat_in = << [w |-> w, h |-> h, len |-> len, s |-> s] >>
    /\ nat_out = <<>>
    /\ fn_in = <<>>
    /\ fn_out = <<>>
    /\ elem_ids = <<>>
    /\ win = <<>>

\* One call of try_paint_surface_macos on the drawn input.
ApplyGate ==
    /\ nat_in # <<>>
    /\ nat_out = <<>>
    /\ nat_out' = << TryPaintSurface(nat_in[1].w, nat_in[1].h, nat_in[1].len, nat_in[1].s) >>
    /\ UNCHANGED << sourceVars, hostVars, prepaintLocals, paintLocals, windowVars >>
    /\ UNCHANGED << nat_in, fn_in, fn_out, elem_ids, win, popped, nativeFails >>

NextNative == ApplyGate

SpecNative == InitNative /\ [][NextNative]_vars

\* ------------------------------ functions of the element on enumerated inputs

\* An element that is never painted: the state the function harnesses leave alone.
Parked ==
    /\ Fresh
    /\ paused = FALSE
    /\ capacity = 0
    /\ macos = TRUE
    /\ nat_in = <<>>
    /\ nat_out = <<>>

elementVars ==
    << sourceVars, hostVars, prepaintLocals, paintLocals, windowVars, popped,
       nativeFails, nat_in, nat_out >>

\* Frame sizes for the converter: the small ones and the 64 x 64 of the scenario.
YuvDims == (0..MaxDim) \cup { 64 }

YuvLens(w, h) ==
    { n \in { 0, Nv12Size(w, h) - 1, Nv12Size(w, h), Nv12Size(w, h) + 1 } : n >= 0 }

InitYuv ==
    /\ Parked
    /\ \E w \in YuvDims, h \in YuvDims :
         \E len \in YuvLens(w, h), r1 \in ConvResults, r2 \in ConvResults, r3 \in ConvResults :
           fn_in = << [w |-> w, h |-> h, len |-> len, r1 |-> r1, r2 |-> r2, r3 |-> r3] >>
    /\ fn_out = <<>>
    /\ elem_ids = <<>>
    /\ win = <<>>

\* One call of yuv_to_rgb on the drawn input.
ApplyYuv ==
    /\ fn_in # <<>>
    /\ fn_out = <<>>
    /\ fn_out' = << YuvToRgb(fn_in[1].w, fn_in[1].h, fn_in[1].len,
                             fn_in[1].r1, fn_in[1].r2, fn_in[1].r3) >>
    /\ UNCHANGED << elementVars, fn_in, elem_ids, win >>

NextYuv == ApplyYuv

SpecYuv == InitYuv /\ [][NextYuv]_vars

\* ------------------------------------------------- fitted_bounds, in f32
\*
\* An f32 value is [m, e], standing for m * 2^e, with m odd (or m = 0, e = 0):
\* one record per value, so equal values are equal records.  Every operation
\* rounds its exact result to a 24-bit significand, ties to even, as f32 does.
\* The values here stay far from the subnormal and overflow ranges.

RECURSIVE GCD(_, _)
GCD(a, b) == IF b = 0 THEN a ELSE GCD(b, a % b)

RECURSIVE Canon(_, _)
Canon(m, e) ==
    IF m = 0 THEN [m |-> 0, e |-> 0]
    ELSE IF m % 2 = 0 THEN Canon(m \div 2, e + 1)
    ELSE [m |-> m, e |-> e]

Significand == 2 ^ 24

\* The least j with n \div 2^j below 2^24.
RECURSIVE ShiftFor(_, _)
ShiftFor(n, j) == IF n \div (2 ^ j) < Significand THEN j ELSE ShiftFor(n, j + 1)

\* n * 2^e (n >= 0) rounded to f32.
RoundNat(n, e) ==
    IF n < Significand THEN Canon(n, e)
    ELSE LET j == ShiftFor(n, 1)
             q == n \div (2 ^ j)
             r == n % (2 ^ j)
             half == 2 ^ (j - 1)
             up == r > half \/ (r = half /\ q % 2 = 1) IN
         Canon(IF up THEN q + 1 ELSE q, e + j)

\* frame_width as f32, container_w: f32 (whole numbers of pixels)
FromInt(n) == Canon(n, 0)

\* The least k with (c * 2^k) \div f at least 2^23.
RECURSIVE ScaleFor(_, _, _)
ScaleFor(c, f, k) ==
    IF (c * (2 ^ k)) \div f >= Significand \div 2 THEN k ELSE ScaleFor(c, f, k + 1)

\* c / f in f32, for whole c >= 0 and f > 0 (the quotient depends on the ratio
\* only, so the common factor is divided out first).
FDiv(c, f) ==
    IF c = 0 THEN [m |-> 0, e |-> 0]
    ELSE LET g == GCD(c, f)
             cc == c \div g
             ff == f \div g
             k == ScaleFor(cc, ff, 0)
             q == (cc * (2 ^ k)) \div ff
             r == (cc * (2 ^ k)) % ff
             up == 2 * r > ff \/ (2 * r = ff /\ q % 2 = 1) IN
         RoundNat(IF up THEN q + 1 ELSE q, 0 - k)

\* The position of the leading bit of a positive value: floor(log2(m)) + e.
RECURSIVE Log2(_)
Log2(m) == IF m < 2 THEN 0 ELSE 1 + Log2(m \div 2)

\* a < b for non-negative f32 values
FLess(a, b) ==
    IF b.m = 0 THEN FALSE
    ELSE IF a.m = 0 THEN TRUE
    ELSE LET la == Log2(a.m) + a.e
             lb == Log2(b.m) + b.e IN
         IF la # lb THEN la < lb
         ELSE IF a.e <= b.e THEN a.m < b.m * (2 ^ (b.e - a.e))
         ELSE a.m * (2 ^ (a.e - b.e)) < b.m

\* f32::min
FMin(a, b) == IF FLess(b, a) THEN b ELSE a

\* a * b in f32, both non-negative
FMul(a, b) == RoundNat(a.m * b.m, a.e + b.e)

\* .max(0.0)
FMax0(a) == IF a.m < 0 THEN [m |-> 0, e |-> 0] ELSE a

\* The exact difference c - d as a pair << n, e >> meaning n * 2^e, for whole c.
ExactDiff(c, d) ==
    IF d.e >= 0 THEN << c - d.m * (2 ^ d.e), 0 >>
    ELSE << c * (2 ^ (0 - d.e)) - d.m, d.e >>

\* c - d in f32, for whole c >= 0 and d >= 0
FSub(c, d) ==
    LET x == ExactDiff(c, d)
        a == RoundNat(IF x[1] < 0 THEN 0 - x[1] ELSE x[1], x[2]) IN
    IF x[1] < 0 THEN [m |-> 0 - a.m, e |-> a.e] ELSE a

\* a * 0.5
FHalf(a) == IF a.m = 0 THEN a ELSE [m |-> a.m, e |-> a.e - 1]

\* a <= n for a non-negative f32 value a and a whole n
FLeInt(a, n) ==
    IF a.e >= 0 THEN a.m * (2 ^ a.e) <= n
    ELSE LET q == a.m \div (2 ^ (0 - a.e))
             r == a.m % (2 ^ (0 - a.e)) IN
         q < n \/ (q = n /\ r = 0)

\* fitted_bounds for a cw x ch container and an fw x fh frame; x and y are the
\* offsets from the container's origin.
FittedBounds(cw, ch, fw, fh) ==
    LET scale == IF fw > 0 /\ fh > 0
                    THEN FMin(FDiv(cw, fw), FDiv(ch, fh))
                    ELSE FromInt(1)
        dest_w == FMax0(FMul(FromInt(fw), scale))
        dest_h == FMax0(FMul(FromInt(fh), scale))
        offset_x == FHalf(FSub(cw, dest_w))
        offset_y == FHalf(FSub(ch, dest_h)) IN
    [x |-> offset_x, y |-> offset_y, w |-> dest_w, h |-> dest_h]

\* The sizes fitted_bounds is applied to: every small one and the documented
\* 1920 x 1080 container with a 640 x 480 frame.
FitInputs ==
    [cw : 0..MaxPx, ch : 0..MaxPx, fw : 0..MaxPx, fh : 0..MaxPx]
        \cup { [cw |-> 1920, ch |-> 1080, fw |-> 640, fh |-> 480] }

InitFit ==
    /\ Parked
    /\ \E i \in FitInputs : fn_in = << i >>
    /\ fn_out = <<>>
    /\ elem_ids = <<>>
    /\ win = <<>>

\* One call of fitted_bounds on the drawn input.
ApplyFit ==
    /\ fn_in # <<>>
    /\ fn_out = <<>>
    /\ fn_out' = << FittedBounds(fn_in[1].cw, fn_in[1].ch, fn_in[1].fw, fn_in[1].fh) >>
    /\ UNCHANGED << elementVars, fn_in, elem_ids, win >>

NextFit == ApplyFit

SpecFit == InitFit /\ [][NextFit]_vars

\* ------------------------------------------ the builders and request_layout

\* Pixel values given to size, width and height, and reported by the source.
LayoutPx == 1..MaxDim

\* get_display_size: both configured, or else the source's display size.
GetDisplaySize(dw, dh, vs) ==
    IF dw # <<>> /\ dh # <<>> THEN << dw[1], dh[1] >> ELSE vs

\* The size request_layout puts into the style: get_display_size, then each
\* dimension that is not configured is taken from the source's display size.
RequestLayoutSize(dw, dh, vs) ==
    LET g == GetDisplaySize(dw, dh, vs) IN
    << IF dw = <<>> THEN vs[1] ELSE g[1],
       IF dh = <<>> THEN vs[2] ELSE g[2] >>

\* A new element on a source whose display size is vs.
InitLayout ==
    /\ Parked
    /\ \E vw \in LayoutPx, vh \in LayoutPx :
         fn_in = << [display_width |-> <<>>, display_height |-> <<>>,
                     vs |-> << vw, vh >>] >>
    /\ fn_out = <<>>
    /\ elem_ids = <<>>
    /\ win = <<>>

\* .size(w, h)
SetSize ==
    /\ fn_out = <<>>
    /\ \E w \in LayoutPx, h \in LayoutPx :
         fn_in' = << [fn_in[1] EXCEPT !.display_width = << w >>,
                                      !.display_height = << h >>] >>
    /\ UNCHANGED << elementVars, fn_out, elem_ids, win >>

\* .width(w)
SetWidth ==
    /\ fn_out = <<>>
    /\ \E w \in LayoutPx :
         fn_in' = << [fn_in[1] EXCEPT !.display_width = << w >>,
                                      !.display_height = <<>>] >>
    /\ UNCHANGED << elementVars, fn_out, elem_ids, win >>

\* .height(h)
SetHeight ==
    /\ fn_out = <<>>
    /\ \E h \in LayoutPx :
         fn_in' = << [fn_in[1] EXCEPT !.display_height = << h >>,
                                      !.display_width = <<>>] >>
    /\ UNCHANGED << elementVars, fn_out, elem_ids, win >>

\* request_layout on the element as configured.
RequestLayout ==
    /\ fn_out = <<>>
    /\ fn_out' = << RequestLayoutSize(fn_in[1].display_width,
                                      fn_in[1].display_height, fn_in[1].vs) >>
    /\ UNCHANGED << elementVars, fn_in, elem_ids, win >>

NextLayout ==
    \/ SetSize
    \/ SetWidth
    \/ SetHeight
    \/ RequestLayout

SpecLayout == InitLayout /\ [][NextLayout]_vars

\* --------------------------------------- a source that can flush its buffer

\* The source empties its buffer (a seek, a reset); the current frame stays.
Flush ==
    /\ ~torn
    /\ buffer # <<>>
    /\ buffer' = <<>>
    /\ UNCHANGED << current, frame_ready, paused, eos, capacity, produced, enqueued >>
    /\ UNCHANGED << hostVars, prepaintLocals, paintLocals, windowVars, gateVars, popped, nativeFails >>

NextFlush ==
    \/ Next
    \/ Flush

SpecFlush == Init /\ [][NextFlush]_vars

\* ------------------------------------------ two elements in the same window

\* What an element may be given through .id(..): nothing, or one of two names.
ElementIds == { "none", "a", "b" }

\* The key of the cell window.use_state hands out: the place of the call, which
\* every VideoElement shares, under the element's id when it has one.
StateKey(e) == elem_ids[e]

\* Two elements under one parent, built with or without ids (two ids given are
\* two different ids), nothing uploaded.
InitShared ==
    /\ Parked
    /\ fn_in = <<>>
    /\ fn_out = <<>>
    /\ elem_ids \in { ids \in [ 1..2 -> ElementIds ] :
                         ids[1] = ids[2] => ids[1] = "none" }
    /\ win = [cells |-> [k \in ElementIds |-> <<>>],
              live |-> {},
              created |-> 0,
              mine |-> [e \in 1..2 |-> <<>>]]

\* paint_render_image of element e: a new image is swapped into the cell of
\* the element's key, painted, and the image the cell held is dropped.
PaintImage(e) ==
    /\ win.created < MaxUploads
    /\ LET img == win.created + 1
           last_cell == win.cells[StateKey(e)] IN
       win' = [cells |-> [win.cells EXCEPT ![StateKey(e)] = << img >>],
               live |-> (win.live \cup { img })
                          \ (IF last_cell = <<>> THEN {} ELSE { last_cell[1] }),
               created |-> img,
               mine |-> [win.mine EXCEPT ![e] = << img >>]]
    /\ UNCHANGED << elementVars, fn_in, fn_out, elem_ids >>

NextShared == \E e \in 1..2 : PaintImage(e)

SpecShared == InitShared /\ [][NextShared]_vars

\* ------------------------------------------ the row copies of the native path

\* A chroma loop over as many rows as the luma plane has.
ChromaRowsFull(h) == h

\* for row in 0..(height / 2)
ChromaRows(h) == h \div 2

\* The copy_nonoverlapping calls of the two loops: plane, row, source offset
\* into yuv_data, destination offset into the plane, and byte count.
RowCopies(w, h, s) ==
    { [plane |-> "y", row |-> row, src |-> row * w,
       dst |-> row * s.y_stride, n |-> w] : row \in 0..(h - 1) }
    \cup
    { [plane |-> "uv", row |-> row, src |-> w * h + row * w,
       dst |-> row * s.uv_stride, n |-> w] : row \in 0..(ChromaRows(h) - 1) }

CopyLens(w, h) ==
    { n \in { 0, Nv12Size(w, h) - 1, Nv12Size(w, h), Nv12Size(w, h) + 1 } : n >= 0 }

InitCopy ==
    /\ Parked
    /\ \E w \in 0..MaxDim, h \in 0..MaxDim :
         \E len \in CopyLens(w, h), s \in GateSurfaces(w, h) :
           fn_in = << [w |-> w, h |-> h, len |-> len, s |-> s] >>
    /\ fn_out = <<>>
    /\ elem_ids = <<>>
    /\ win = <<>>

\* One call of try_paint_surface_macos: the copies it made, none unless every
\* check passed and the surface was locked.
ApplyCopy ==
    /\ fn_in # <<>>
    /\ fn_out = <<>>
    /\ LET i == fn_in[1] IN
       fn_out' = << IF TryPaintSurface(i.w, i.h, i.len, i.s).locked
                       THEN RowCopies(i.w, i.h, i.s)
                       ELSE {} >>
    /\ UNCHANGED << elementVars, fn_in, elem_ids, win >>

NextCopy == ApplyCopy

SpecCopy == InitCopy /\ [][NextCopy]_vars

\* ------------------------------------------------------------ properties

\* The ids of the frames in the buffer, front first.
BufferIds == [ i \in 1..Len(buffer) |-> buffer[i].id ]

\* A step of the pass (every step of the UI thread moves pc; the source's do not).
PassStep == pc' # pc

InImageCall == pc \in { "img_swap", "img_paint", "img_drop" }

\* C1: a paint pass pops exactly one frame when the source reported a backlog
\* N >= 1, and never more: the buffer shrinks only in the acquisition step of a
\* pass, by its front frame; when the source did nothing since the length was
\* read the backlog after the step is N - 1; and the frames consumed never
\* outnumber the passes.
C1_OnePopPerPass ==
    [][ /\ (Len(buffer') < Len(buffer)
              => /\ pc = "paint_acquire" /\ PassStep
                 /\ seenLen >= 1
                 /\ buffer' = Tail(buffer)
                 /\ Len(popped') = Len(popped) + 1)
        /\ (pc = "paint_acquire" /\ PassStep /\ seenLen >= 1
              => /\ buffer # <<>>
                 /\ buffer' = Tail(buffer)
                 /\ frame_to_render' = << Head(buffer) >>)
        /\ (pc = "paint_acquire" /\ PassStep /\ seenLen >= 1 /\ Len(buffer) = seenLen
              => Len(buffer') = seenLen - 1)
        /\ Len(popped') <= passes'
      ]_vars

\* C1's case: a pass that saw a backlog of 3 took a frame and left 2.
C1_Witness ==
    /\ pc = "paint_native"
    /\ seenLen = 3
    /\ Len(buffer) = 2
    /\ frame_to_render # <<>>
    /\ Len(popped) = 1

\* C2: frames are rendered in arrival order: the frames the passes took from
\* the buffer, followed by the frames still in it, are the frames enqueued, in
\* the order they were enqueued (none skipped, reordered or taken twice).
C2_Fifo == enqueued = popped \o BufferIds

\* C2's case: a backlog of 3 drained by three passes, in order, down to 0.
C2_Witness ==
    /\ pc = "done"
    /\ passes = 3
    /\ enqueued = << 1, 2, 3 >>
    /\ popped = << 1, 2, 3 >>
    /\ buffer = <<>>

\* C3: at most 2 images of the surface are created and not yet evicted at any
\* step, and outside a paint_render_image call exactly the one in the
\* 'last image' cell is.
C3_AtMostTwoLive ==
    /\ Cardinality(live) <= 2
    /\ (~InImageCall /\ created > 0 /\ ~torn
          => /\ Cardinality(live) = 1
             /\ live = { last_render_image[i] : i \in 1..Len(last_render_image) })

\* C3's case: a second call has completed, and inside a call two were live.
C3_Witness ==
    /\ pc = "done"
    /\ images = 1
    /\ created >= 2
    /\ Cardinality(live) = 1

IsSwap(e) == e[1] = "swap"

\* The images in the order they were swapped into the 'last image' cell.
Swaps == SelectSeq(trace, IsSwap)

\* C4: an image is evicted at most once, only as the last step of the call that
\* swapped in and painted its immediate successor (swap-in new, paint new, drop
\* previous), and every image whose successor's call has completed has been
\* evicted exactly once.
C4_EvictAfterSuccessor ==
    /\ \A k \in 1..Len(trace) :
         trace[k][1] = "drop" =>
           /\ \A k2 \in 1..Len(trace) : trace[k2] = trace[k] => k2 = k
           /\ k >= 3
           /\ trace[k - 2][1] = "swap"
           /\ trace[k - 1] = << "paint", trace[k - 2][2] >>
           /\ \E n \in 1..(Len(Swaps) - 1) :
                /\ Swaps[n][2] = trace[k][2]
                /\ Swaps[n + 1] = trace[k - 2]
    /\ \A n \in 1..(Len(Swaps) - 1) :
         (~InImageCall \/ n + 1 < Len(Swaps))
           => Cardinality({ k \in 1..Len(trace) : trace[k] = << "drop", Swaps[n][2] >> }) = 1

\* C4's case: image 1 was evicted after image 2 was swapped in and painted.
C4_Witness ==
    /\ pc = "done"
    /\ last_render_image = << 2 >>
    /\ \E k \in 1..Len(trace) : trace[k] = << "drop", 1 >>

\* C5: after teardown no image created by the surface remains un-evicted.
C5_TeardownReleases == (torn /\ created > 0) => live = {}

\* C6: prepaint requests another animation frame exactly when playback is
\* active or the frame-ready flag was set when read; it clears the flag, no
\* other step of the element clears it, and nothing else requests a pass.
C6_RedrawRequest ==
    [][ /\ (pc = "prepaint" /\ PassStep
              => /\ raf' = ((~eos /\ ~paused) \/ frame_ready)
                 /\ frame_ready' = FALSE)
        /\ (frame_ready /\ ~frame_ready' => pc = "prepaint" /\ PassStep)
        /\ (~raf /\ raf' => pc = "prepaint" /\ PassStep)
      ]_vars

\* C6's case: playback is inactive and the flag alone requested the next pass.
C6_Witness ==
    /\ pc = "paint_len"
    /\ ~is_playing
    /\ has_new_frame
    /\ raf
    /\ ~frame_ready

\* C7: no redraw starvation: when the host has no pass running and none
\* pending (none requested, window not invalidated), no published frame is
\* left unpainted in the buffer.
C7_NoStarvation ==
    (pc = "idle" /\ ~torn /\ ~raf /\ ~dirty) => buffer = <<>>

\* C8: an acquired frame is submitted by exactly one path: a successful native
\* attempt ends the pass with one surface and no conversion or image; a failed
\* or unavailable one submits no surface, and the frame is converted and
\* submitted as one image.
C8_OnePath ==
    /\ surfaces + images <= 1
    /\ (surfaces >= 1 => handled = "yes" /\ conversions = 0 /\ render_image = <<>>)
    /\ (handled \in { "no", "unavailable" } => surfaces = 0)
    /\ (pc = "done" /\ frame_to_render # <<>>
          => \/ handled = "yes" /\ surfaces = 1 /\ conversions = 0 /\ images = 0
             \/ handled \in { "no", "unavailable" } /\ surfaces = 0
                  /\ conversions = 1 /\ images = 1)

\* C8's case: a pass ended by a successful native submission.
C8_Witness ==
    /\ pc = "done"
    /\ handled = "yes"
    /\ surfaces = 1

\* What the claim lists as grounds for 'not handled'.
GateMustReject(i) ==
    \/ i.len < i.w * i.h + (i.w * i.h) \div 2
    \/ i.w = 0
    \/ i.h = 0
    \/ ~i.s.alloc
    \/ ~i.s.pf_ok \/ ~i.s.planar \/ i.s.planes # 2
    \/ i.s.y_w # i.w \/ i.s.y_h # i.h
    \/ i.s.uv_w # i.w \div 2 \/ i.s.uv_h # i.h \div 2
    \/ i.s.y_stride < i.s.y_w
    \/ i.s.uv_stride < i.s.uv_w

\* C9: the native path is a validate-then-write gate: on any listed ground it
\* returns 'not handled' having locked nothing, copied no byte and submitted no
\* surface; bytes are copied only when every check passed and the lock
\* succeeded.
C9_ValidateThenWrite ==
    nat_out # <<>> =>
      LET i == nat_in[1]
          o == nat_out[1] IN
      /\ (GateMustReject(i)
            => ~o.handled /\ ~o.locked /\ o.copied = 0 /\ ~o.submitted)
      /\ (o.copied > 0 \/ o.submitted \/ o.handled
            => ~GateMustReject(i) /\ i.s.lock /\ o.locked)

\* C9's case: everything is in order but the luma stride, and the gate rejects.
C9_Witness ==
    /\ nat_out # <<>>
    /\ nat_in[1].w = 3
    /\ nat_in[1].h = 2
    /\ nat_in[1].len = 9
    /\ nat_in[1].s = [GoodSurface(3, 2) EXCEPT !.y_stride = 2]
    /\ ~nat_out[1].handled

\* C10: a native failure affects its own frame only: on the macOS build every
\* acquired frame gets a native attempt however many earlier attempts failed,
\* and a frame whose attempt failed is converted and submitted as an image in
\* the same pass.
C10_RetryEveryFrame ==
    /\ (macos /\ frame_to_render # <<>> /\ pc # "paint_native"
          => handled \in { "yes", "no" })
    /\ (pc = "done" /\ handled = "no" => conversions = 1 /\ images = 1)

\* C10's case: the native path succeeds after two earlier failures.
C10_Witness ==
    /\ pc = "done"
    /\ nativeFails = 2
    /\ handled = "yes"
    /\ surfaces = 1

\* C11: for every width, height and input length, yuv_to_rgb returns a buffer
\* of exactly width * height * 4 bytes (it has no error return); when the input
\* is shorter than width * height + (width * height) / 2 the buffer is all
\* zeros and no conversion was attempted.
C11_SizedOutput ==
    fn_out # <<>> =>
        LET i == fn_in[1]
            o == fn_out[1] IN
        /\ o.len = i.w * i.h * 4
        /\ (i.len < i.w * i.h + (i.w * i.h) \div 2
              => o.fill = "zeros" /\ o.attempts = 0)
        /\ (i.len >= i.w * i.h + (i.w * i.h) \div 2 => o.attempts >= 1)

\* An empty input for a 64 x 64 frame came back as 64 * 64 * 4 zero bytes.
C11_Witness ==
    /\ fn_out # <<>>
    /\ fn_in[1].w = 64 /\ fn_in[1].h = 64 /\ fn_in[1].len = 0
    /\ fn_out[1] = [len |-> 64 * 64 * 4, fill |-> "zeros", attempts |-> 0]

\* C12: on an input that passes the length precheck the converter tries
\* (full, BT.709), (limited, BT.709), (limited, BT.601) in that order, stops at
\* the first success and returns its output; a later configuration is tried
\* only after every earlier one failed; when all three fail the result is
\* width * height * 4 zero bytes whatever the failed attempts wrote.
C12_OrderedFallback ==
    (fn_out # <<>> /\ fn_in[1].len >= fn_in[1].w * fn_in[1].h + (fn_in[1].w * fn_in[1].h) \div 2) =>
        LET i == fn_in[1]
            o == fn_out[1] IN
        /\ i.r1 = "ok" => o.fill = "full709" /\ o.attempts = 1
        /\ (i.r1 # "ok" /\ i.r2 = "ok") => o.fill = "limited709" /\ o.attempts = 2
        /\ (i.r1 # "ok" /\ i.r2 # "ok" /\ i.r3 = "ok")
              => o.fill = "limited601" /\ o.attempts = 3
        /\ (i.r1 # "ok" /\ i.r2 # "ok" /\ i.r3 # "ok")
              => o.fill = "zeros" /\ o.attempts = 3 /\ o.len = i.w * i.h * 4

\* All three attempts failed on a long-enough input, one of them after writing
\* into the output buffer, and the result is the zero buffer.
C12_Witness ==
    /\ fn_out # <<>>
    /\ fn_in[1].w > 0 /\ fn_in[1].h > 0
    /\ fn_in[1].len >= Nv12Size(fn_in[1].w, fn_in[1].h)
    /\ fn_in[1].r1 = "err_wrote" /\ fn_in[1].r2 = "err" /\ fn_in[1].r3 = "err_wrote"
    /\ fn_out[1].fill = "zeros"
    /\ fn_out[1].attempts = 3

\* C13: for a frame with Fw = 0 or Fh = 0, fitted_bounds returns the full
\* container: the destination size is (Cw, Ch) and both offsets from the
\* container's origin are 0.
C13_DegenerateFillsContainer ==
    (fn_out # <<>> /\ (fn_in[1].fw = 0 \/ fn_in[1].fh = 0)) =>
        /\ fn_out[1].w = FromInt(fn_in[1].cw)
        /\ fn_out[1].h = FromInt(fn_in[1].ch)
        /\ fn_out[1].x = FromInt(0)
        /\ fn_out[1].y = FromInt(0)

\* C14: for positive container and frame sizes the destination lies inside the
\* container (dest_w <= Cw and dest_h <= Ch) and is centred, its offsets being
\* half of what the container has left over; a 1920 x 1080 container with a
\* 640 x 480 frame gives 1440 x 1080 at (240, 0).
C14_FitsInsideCentred ==
    (fn_out # <<>> /\ fn_in[1].cw > 0 /\ fn_in[1].ch > 0
                   /\ fn_in[1].fw > 0 /\ fn_in[1].fh > 0) =>
        /\ FLeInt(fn_out[1].w, fn_in[1].cw)
        /\ FLeInt(fn_out[1].h, fn_in[1].ch)
        /\ fn_out[1].x = FHalf(FSub(fn_in[1].cw, fn_out[1].w))
        /\ fn_out[1].y = FHalf(FSub(fn_in[1].ch, fn_out[1].h))
        /\ (fn_in[1] = [cw |-> 1920, ch |-> 1080, fw |-> 640, fh |-> 480]
              => fn_out[1] = [x |-> FromInt(240), y |-> FromInt(0),
                              w |-> FromInt(1440), h |-> FromInt(1080)])

\* C15: request_layout reports the configured width with a height that keeps
\* the source's aspect ratio when only a width is configured, the configured
\* height with a width that keeps the source's aspect ratio when only a height
\* is configured, both as configured when both are, and the source's display
\* size when neither is.
C15_LayoutSize ==
    fn_out # <<>> =>
        LET dw == fn_in[1].display_width
            dh == fn_in[1].display_height
            vs == fn_in[1].vs
            out == fn_out[1] IN
        /\ (dw # <<>> /\ dh = <<>>)
              => out[1] = dw[1] /\ out[2] * vs[1] = dw[1] * vs[2]
        /\ (dw = <<>> /\ dh # <<>>)
              => out[2] = dh[1] /\ out[1] * vs[2] = dh[1] * vs[1]
        /\ (dw # <<>> /\ dh # <<>>) => out = << dw[1], dh[1] >>
        /\ (dw = <<>> /\ dh = <<>>) => out = vs

C19_NothingToPaintKeepsState ==
    [][ /\ (PassStep /\ pc = "paint_acquire" /\ frame_to_render' = <<>>)
              => /\ pc' = "done"
                 /\ UNCHANGED << last_render_image, live, created, trace >>
                 /\ surfaces' = 0 /\ images' = 0 /\ conversions' = 0
        /\ (PassStep /\ pc = "paint_native" /\ handled' = "yes")
              => /\ pc' = "done"
                 /\ UNCHANGED << last_render_image, live, created, trace >>
                 /\ images' = 0 /\ conversions' = 0
        /\ (PassStep /\ pc \in { "idle", "prepaint", "paint_len", "paint_acquire",
                                 "paint_native", "done" })
              => UNCHANGED << last_render_image, live, created, trace >> ]_vars

\* A pass ended by a native submission while the image of an earlier CPU-path
\* frame is retained and still in the atlas.
C19_Witness ==
    /\ pc = "done"
    /\ handled = "yes"
    /\ surfaces = 1
    /\ last_render_image # <<>>
    /\ live = { last_render_image[1] }

\* C17: the retained image is private to each element: whatever the other
\* element of the window uploads, with or without ids, the image an element
\* uploaded last is still the one its cell retains and is still in the atlas.
C17_PrivateLastImage ==
    (win # <<>>) =>
        \A e \in 1..2 :
            win.mine[e] # <<>> =>
                /\ win.cells[StateKey(e)] = win.mine[e]
                /\ win.mine[e][1] \in win.live

\* C18: whenever the source has a current frame, the acquisition step of a
\* pass yields a frame, also when the buffer was emptied after its length was
\* read as positive.
C18_FallsBackToCurrent ==
    [][ (pc = "paint_acquire" /\ PassStep /\ current # <<>>)
            => frame_to_render' # <<>> ]_vars

\* C20: every row copy the native path makes stays in bounds, for odd sizes
\* too: a luma copy of row < height reads width bytes at row * width, a chroma
\* copy of row < height / 2 reads width bytes at width * height + row * width,
\* both inside the input; each writes width bytes at row * stride, inside its
\* row (width <= stride) and inside its plane.
C20_CopiesInBounds ==
    fn_out # <<>> =>
        LET i == fn_in[1] IN
        \A c \in fn_out[1] :
            /\ c.n = i.w
            /\ c.src + c.n <= i.len
            /\ c.plane = "y"
                  => /\ c.row < i.h
                     /\ c.src = c.row * i.w
                     /\ c.n <= i.s.y_stride
                     /\ c.dst = c.row * i.s.y_stride
                     /\ c.dst + c.n <= i.s.y_h * i.s.y_stride
            /\ c.plane = "uv"
                  => /\ c.row < i.h \div 2
                     /\ c.src = i.w * i.h + c.row * i.w
                     /\ c.n <= i.s.uv_stride
                     /\ c.dst = c.row * i.s.uv_stride
                     /\ c.dst + c.n <= i.s.uv_h * i.s.uv_stride

\* A 3 x 3 frame of exactly 13 bytes copied into a surface with padded rows:
\* three luma rows and one chroma row.
C20_Witness ==
    /\ fn_out # <<>>
    /\ fn_in[1].w = 3 /\ fn_in[1].h = 3
    /\ fn_in[1].len = Nv12Size(3, 3)
    /\ fn_in[1].s.y_stride = 4 /\ fn_in[1].s.uv_stride = 4
    /\ Cardinality(fn_out[1]) = 4
    /\ [plane |-> "uv", row |-> 0, src |-> 9, dst |-> 0, n |-> 3] \in fn_out[1]

====
